---- MODULE Spec2Model ----
(***************************************************************************)
(* Model of kokoro_tts_fastapi_server.py: the POST /tts handler            *)
(* text_to_speech, the process-wide pipeline cache behind get_pipeline,    *)
(* the encoder wrapper convert_to_ogg and the temporary directory.         *)
(*                                                                         *)
(* The handler is a plain `def`, so the framework runs it on thread-pool   *)
(* workers: each worker executes one request at a time, several workers    *)
(* may be inside the handler at once.  A worker's locals are the fields of *)
(* req[w]; the module-level dict and the directory are shared.             *)
(*                                                                         *)
(* Strings that the code inspects are sequences of one-character strings   *)
(* (language tags, phoneme strings); Python's None is the empty option     *)
(* <<>> and a present value v is <<v>>.                                    *)
(***************************************************************************)
EXTENDS Naturals, Sequences, FiniteSets, TLC

VARIABLES
    pipelines,    \* the module-level dict: lang_code -> pipeline instance
    files,        \* the files present in TEMP_DIR
    req,          \* per worker: the locals of its current text_to_speech call
    started,      \* number of requests that entered the handler
    uuids,        \* number of uuid4() values handed out
    constructed,  \* history: instances KPipeline() returned, in order
    stores        \* history: instances assigned into the dict, in order

vars == <<pipelines, files, req, started, uuids, constructed, stores>>

----------------------------------------------------------------------------
\* Bounds of the model.

NumWorkers == 2
MaxRequests == 2
MaxTagLen == 2
MaxBatches == 2
MaxFrames == 2

Workers == 1..NumWorkers

----------------------------------------------------------------------------
\* Language tags and their resolution (text_to_speech, lines 66-87).

LowerCaseLetters == {"a", "b", "e", "f", "g", "h", "j", "n", "r", "s", "z"}

UpperCaseLetters == {"A", "B", "E", "G", "H", "J", "N", "S", "Z"}

Alphabet == LowerCaseLetters \cup UpperCaseLetters

\* str.lower() on one character.
LowerChar(ch) ==
    CASE ch = "A" -> "a"
      [] ch = "B" -> "b"
      [] ch = "E" -> "e"
      [] ch = "G" -> "g"
      [] ch = "H" -> "h"
      [] ch = "J" -> "j"
      [] ch = "N" -> "n"
      [] ch = "S" -> "s"
      [] ch = "Z" -> "z"
      [] OTHER -> ch

\* request.lang.lower()
Lower(s) == [i \in 1..Len(s) |-> LowerChar(s[i])]

\* lang_code_map, as the set of its (key, value) items.
lang_code_map ==
    { << <<"e", "n">>, "a" >>,
      << <<"g", "b">>, "b" >>,
      << <<"e", "s">>, "e" >>,
      << <<"j", "a">>, "j" >>,
      << <<"z", "h">>, "z" >> }

\* voice_map, as the set of its (key, value) items.
voice_map ==
    { <<"a", "af_heart">>,
      <<"b", "bf_sunny">>,
      <<"e", "em_alex">>,
      <<"j", "jf_yama">>,
      <<"z", "zf_xiaobei">> }

\* dict.get(key, default)
DictGet(items, key, default) ==
    IF \E kv \in items : kv[1] = key
      THEN (CHOOSE kv \in items : kv[1] = key)[2]
      ELSE default

ModelCodes == {kv[2] : kv \in lang_code_map}

\* The resolution with the lower-casing of line 67 left out.
ResolveCaseSensitive(tag) ==
    LET code == DictGet(lang_code_map, tag, "a")
    IN  [lang_code |-> code, voice |-> DictGet(voice_map, code, "af_heart")]

\* lines 67-87: the (lang_code, voice) pair of a request's lang field.
Resolve(tag) ==
    LET lang == Lower(tag)
        code == DictGet(lang_code_map, lang, "a")
    IN  [lang_code |-> code, voice |-> DictGet(voice_map, code, "af_heart")]

\* All tags of at most MaxTagLen characters over the alphabet.
AllTags == UNION {[1..n -> Alphabet] : n \in 0..MaxTagLen}

\* The tags the concurrent specifications draw from: a supported tag in lower
\* case, one in upper case, an unsupported one.
SomeTags == { <<"e", "n">>, <<"G", "B">>, <<"f", "r">> }

----------------------------------------------------------------------------
\* Values.

\* A pipeline instance: KPipeline(lang_code=c), told apart by id.
NoPipeline == [id |-> 0, lang_code |-> "-"]

NewPipeline(n, c) == [id |-> n, lang_code |-> c]

\* TEMP_DIR (line 31) and the two artifact paths of a request (lines 94-95).
TEMP_DIR == "tts_audio"

WavPath(request_id) == <<TEMP_DIR, ToString(request_id), ".wav">>

OggPath(request_id) == <<TEMP_DIR, ToString(request_id), ".ogg">>

\* What the caller has received: nothing yet, a FileResponse, or an error.
NoResponse ==
    [kind |-> "none", status_code |-> 0, detail |-> <<>>,
     path |-> <<>>, media_type |-> "-", filename |-> <<>>]

\* An exception object: its class, and for an HTTPException its status code.
HTTPException(status_code, detail) ==
    [type |-> "HTTPException", status_code |-> status_code, text |-> detail]

Raised(type, text) == [type |-> type, status_code |-> 0, text |-> text]

\* str(e): starlette's HTTPException prints "<status_code>: <detail>", any
\* other exception prints its message.
Str(e) ==
    IF e.type = "HTTPException"
      THEN <<ToString(e.status_code), ": ", e.text>>
      ELSE <<e.text>>

\* The handler of lines 145-147 with the message left out of the detail.
HandleExceptionNoMessage(e) ==
    [NoResponse EXCEPT !.kind = "error", !.status_code = 500,
                       !.detail = <<"Internal server error">>]

\* lines 145-147: every exception becomes HTTPException(500, "Internal server
\* error: " + str(e)), which the framework sends to the caller.
HandleException(e) ==
    [NoResponse EXCEPT !.kind = "error", !.status_code = 500,
                       !.detail = <<"Internal server error: ">> \o Str(e)]

\* The response of lines 139-143 built on the WAV path.
FileResponseOfWav(request_id) ==
    [NoResponse EXCEPT !.kind = "file", !.status_code = 200,
                       !.path = WavPath(request_id),
                       !.media_type = "audio/ogg",
                       !.filename = <<"speech_", ToString(request_id), ".ogg">>]

\* lines 139-143: FileResponse(ogg_path, media_type, filename).
FileResponse(request_id) ==
    [NoResponse EXCEPT !.kind = "file", !.status_code = 200,
                       !.path = OggPath(request_id),
                       !.media_type = "audio/ogg",
                       !.filename = <<"speech_", ToString(request_id), ".ogg">>]

\* The locals of a worker that is not inside the handler.
Idle ==
    [pc |-> "idle", request_lang |-> <<>>, lang_code |-> "-", voice |-> "-",
     built |-> NoPipeline, pipeline |-> NoPipeline, request_id |-> 0,
     batches |-> <<>>, phonemes |-> <<>>, tokens |-> <<>>,
     audio_segments |-> <<>>, success |-> <<>>,
     response |-> NoResponse, log |-> <<>>]

\* One entry of a request's call log: a collaborator and how the call ended.
\* n is the number of items a generator yielded to the handler's loop.
Call(step, result, n) == [step |-> step, result |-> result, n |-> n]

----------------------------------------------------------------------------
\* The collaborators' possible behaviours (the inputs of the actions).

PhonemeStrings == { <<>>, <<"p">>, <<"q">> }

\* One item of the phonemizing generator: its ps is a str, or a tuple of str.
StrBatch(s) == [is_tuple |-> FALSE, str |-> s, items |-> <<>>]

TupleBatch(t) == [is_tuple |-> TRUE, str |-> <<>>, items |-> t]

BatchValues ==
    {StrBatch(s) : s \in PhonemeStrings}
      \cup {TupleBatch(<<>>)}
      \cup {TupleBatch(<<s>>) : s \in PhonemeStrings}

BatchLists == UNION {[1..n -> BatchValues] : n \in 0..MaxBatches}

\* pipeline(text, ...): raises before its first item, or yields these items.
PhonemizerRuns ==
    {[raises |-> TRUE, batches |-> <<>>]}
      \cup {[raises |-> FALSE, batches |-> bs] : bs \in BatchLists}

\* The runs the concurrent specifications draw from.
SomePhonemizerRuns ==
    { [raises |-> TRUE, batches |-> <<>>],
      [raises |-> FALSE, batches |-> <<>>],
      [raises |-> FALSE, batches |-> <<StrBatch(<<>>), StrBatch(<<"q">>)>>],
      [raises |-> FALSE, batches |-> <<StrBatch(<<"p">>)>>],
      [raises |-> FALSE, batches |-> <<TupleBatch(<<>>)>>],
      [raises |-> FALSE, batches |-> <<TupleBatch(<< <<"p">> >>), StrBatch(<<"q">>)>>] }

\* pipeline.generate_from_tokens(...): raises, or yields this many items.
SynthesizerRuns ==
    {[raises |-> TRUE, frames |-> 0]}
      \cup {[raises |-> FALSE, frames |-> n] : n \in 0..MaxFrames}

\* sf.write: writes the file, or raises having created the file or not.
WriteRuns == {"ok", "raise", "raise_partial"}

\* subprocess.run(ffmpeg ..., check=True): exit status 0, a non-zero exit
\* status (CalledProcessError), or another exception (ffmpeg missing, ...);
\* a failed run may or may not leave an output file behind.
EncoderRuns ==
    {[outcome |-> "ok", output |-> TRUE]}
      \cup {[outcome |-> o, output |-> b] :
               o \in {"nonzero", "raise"}, b \in BOOLEAN}

----------------------------------------------------------------------------
\* The pieces of the handler.

\* line 39 with the test always taken: the pipeline is built on every call.
AlwaysMiss(cache, lang_code) == TRUE

\* line 39: lang_code not in pipelines
CacheMiss(cache, lang_code) == lang_code \notin DOMAIN cache

\* line 41 as pipelines.setdefault(lang_code, p): the first instance is kept.
StoreIfAbsent(cache, lang_code, p) ==
    [c \in DOMAIN cache \cup {lang_code} |->
        IF c \in DOMAIN cache THEN cache[c] ELSE p]

\* line 41: pipelines[lang_code] = p
StoreIn(cache, lang_code, p) ==
    [c \in DOMAIN cache \cup {lang_code} |->
        IF c = lang_code THEN p ELSE cache[c]]

\* ps[0] if isinstance(ps, tuple) else ps   (line 103)
\* error is <<>> or the IndexError of an empty tuple.
ExtractPhonemes(b) ==
    IF b.is_tuple
      THEN IF b.items = <<>>
             THEN [error |-> <<Raised("IndexError", "tuple index out of range")>>,
                   phonemes |-> <<>>]
             ELSE [error |-> <<>>, phonemes |-> <<b.items[1]>>]
      ELSE [error |-> <<>>, phonemes |-> <<b.str>>]

\* The loop of lines 101-104 without its break: the last item wins.
LastBatchPhonemes(batches) ==
    IF batches = <<>>
      THEN [error |-> <<>>, phonemes |-> <<>>]
      ELSE ExtractPhonemes(batches[Len(batches)])

\* lines 101-104: phonemes = None, then the first item's phoneme string.
FirstBatchPhonemes(batches) ==
    IF batches = <<>>
      THEN [error |-> <<>>, phonemes |-> <<>>]
      ELSE ExtractPhonemes(batches[1])

\* line 106 as `if phonemes is None`.
IsNone(phonemes) == phonemes = <<>>

\* line 106: not phonemes  (None or the empty string)
NoPhonemes(phonemes) == phonemes = <<>> \/ phonemes[1] = <<>>

\* lines 119-121 with the list started from a leading silent frame.
CollectAfterSilence(n) == <<0>> \o [i \in 1..n |-> i]

\* lines 119-121: the list of the audio items yielded, in order.
Collect(n) == [i \in 1..n |-> i]

\* line 123: not audio_segments
NoAudio(audio_segments) == audio_segments = <<>>

\* subprocess.run without check=True: a non-zero exit status goes unnoticed.
convert_to_ogg_unchecked(outcome) == outcome # "raise"

\* lines 44-56: True when ffmpeg ran and exited with status 0, False when it
\* exited non-zero (CalledProcessError) or anything else was raised.
convert_to_ogg(outcome) == outcome = "ok"

\* The directory after sf.write(wav_path, ...).
FilesAfterWrite(fs, wav_path, run) ==
    IF run \in {"ok", "raise_partial"} THEN fs \cup {wav_path} ELSE fs

\* The directory after the encoder, with the intermediate WAV removed.
FilesAfterEncodeCleanup(fs, wav_path, ogg_path, run) ==
    (IF run.output THEN fs \cup {ogg_path} ELSE fs) \ {wav_path}

\* The directory after ffmpeg -i wav_path ... ogg_path -y.
FilesAfterEncode(fs, wav_path, ogg_path, run) ==
    IF run.output THEN fs \cup {ogg_path} ELSE fs

\* An exception leaves the try block: lines 145-147 answer the caller.
Fail(r, e) == [r EXCEPT !.pc = "done", !.response = HandleException(e)]

Logged(r, c) == [r EXCEPT !.log = Append(r.log, c)]

----------------------------------------------------------------------------
\* Initial state: server started, cache empty, TEMP_DIR created and empty.

Init ==
    /\ pipelines = <<>>
    /\ files = {}
    /\ req = [w \in Workers |-> Idle]
    /\ started = 0
    /\ uuids = 0
    /\ constructed = <<>>
    /\ stores = <<>>

----------------------------------------------------------------------------
\* The steps of text_to_speech on worker w.

\* lines 63-87: the framework hands a request to a free worker; the handler
\* lower-cases the tag and resolves lang_code and voice.
Begin(w, tag) ==
    /\ req[w].pc \in {"idle", "done"}
    /\ started < MaxRequests
    /\ started' = started + 1
    /\ req' = [req EXCEPT ![w] =
                 [Idle EXCEPT !.pc = "get_pipeline",
                              !.request_lang = tag,
                              !.lang_code = Resolve(tag).lang_code,
                              !.voice = Resolve(tag).voice]]
    /\ UNCHANGED <<pipelines, files, uuids, constructed, stores>>

\* line 39: the membership test of get_pipeline.
CacheLookup(w) ==
    /\ req[w].pc = "get_pipeline"
    /\ req' = [req EXCEPT ![w].pc =
                 IF CacheMiss(pipelines, req[w].lang_code)
                   THEN "construct" ELSE "return_pipeline"]
    /\ UNCHANGED <<pipelines, files, started, uuids, constructed, stores>>

\* line 41, right-hand side: KPipeline(lang_code=lang_code) returns a new
\* instance or raises.
Construct(w, ok) ==
    /\ req[w].pc = "construct"
    /\ IF ok
         THEN LET p == NewPipeline(Len(constructed) + 1, req[w].lang_code)
              IN  /\ constructed' = Append(constructed, p)
                  /\ req' = [req EXCEPT ![w] =
                               Logged([req[w] EXCEPT !.pc = "store", !.built = p],
                                      Call("KPipeline", "ok", 0))]
         ELSE /\ constructed' = constructed
              /\ req' = [req EXCEPT ![w] =
                           Fail(Logged(req[w], Call("KPipeline", "raise", 0)),
                                Raised("Exception", "KPipeline error"))]
    /\ UNCHANGED <<pipelines, files, started, uuids, stores>>

\* line 41, the assignment into the dict.
Store(w) ==
    /\ req[w].pc = "store"
    /\ pipelines' = StoreIn(pipelines, req[w].lang_code, req[w].built)
    /\ stores' = Append(stores, req[w].built)
    /\ req' = [req EXCEPT ![w].pc = "return_pipeline"]
    /\ UNCHANGED <<files, started, uuids, constructed>>

\* line 42 and lines 90-95: get_pipeline returns pipelines[lang_code]; the
\* handler draws a fresh request_id.
ReturnPipeline(w) ==
    /\ req[w].pc = "return_pipeline"
    /\ uuids' = uuids + 1
    /\ req' = [req EXCEPT ![w] =
                 [req[w] EXCEPT !.pc = "phonemize",
                                !.pipeline = pipelines[req[w].lang_code],
                                !.request_id = uuids + 1]]
    /\ UNCHANGED <<pipelines, files, started, constructed, stores>>

\* lines 99-107: run the phonemizer, keep the first item's phoneme string,
\* fail when there is none.
Phonemize(w, run) ==
    /\ req[w].pc = "phonemize"
    /\ LET r == [req[w] EXCEPT !.batches = run.batches]
           got == FirstBatchPhonemes(run.batches)
       IN  req' = [req EXCEPT ![w] =
             IF run.raises
               THEN Fail(Logged(r, Call("pipeline", "raise", 0)),
                         Raised("Exception", "pipeline error"))
               ELSE LET l == Logged(r, Call("pipeline", "ok",
                                            IF run.batches = <<>> THEN 0 ELSE 1))
                    IN  IF got.error # <<>>
                          THEN Fail(l, got.error[1])
                          ELSE IF NoPhonemes(got.phonemes)
                            THEN Fail([l EXCEPT !.phonemes = got.phonemes],
                                      HTTPException(500, "No phonemes generated from text"))
                            ELSE [l EXCEPT !.pc = "generate",
                                           !.phonemes = got.phonemes]]
    /\ UNCHANGED <<pipelines, files, started, uuids, constructed, stores>>

\* lines 111-129: generate_from_tokens(tokens=phonemes), collect the audio
\* items, fail when there are none, else concatenate and write the WAV.
Synthesize(w, run, wr) ==
    /\ req[w].pc = "generate"
    /\ LET r == [req[w] EXCEPT !.tokens = req[w].phonemes]
           segs == Collect(run.frames)
           wav_path == WavPath(req[w].request_id)
       IN  IF run.raises
             THEN /\ req' = [req EXCEPT ![w] =
                        Fail(Logged(r, Call("generate_from_tokens", "raise", 0)),
                             Raised("Exception", "generate_from_tokens error"))]
                  /\ files' = files
             ELSE LET l == Logged([r EXCEPT !.audio_segments = segs],
                                  Call("generate_from_tokens", "ok", run.frames))
                  IN  IF NoAudio(segs)
                        THEN /\ req' = [req EXCEPT ![w] =
                                   Fail(l, HTTPException(500,
                                        "No audio segments generated from phonemes"))]
                             /\ files' = files
                        ELSE /\ files' = FilesAfterWrite(files, wav_path, wr)
                             /\ req' = [req EXCEPT ![w] =
                                   IF wr = "ok"
                                     THEN [Logged(l, Call("sf.write", "ok", 0))
                                             EXCEPT !.pc = "convert"]
                                     ELSE Fail(Logged(l, Call("sf.write", "raise", 0)),
                                               Raised("Exception", "sf.write error"))]
    /\ UNCHANGED <<pipelines, started, uuids, constructed, stores>>

\* lines 131-143: convert_to_ogg(wav_path, ogg_path); on success answer with
\* the OGG file, otherwise fail.
Convert(w, run) ==
    /\ req[w].pc = "convert"
    /\ LET wav_path == WavPath(req[w].request_id)
           ogg_path == OggPath(req[w].request_id)
           success == convert_to_ogg(run.outcome)
           l == Logged([req[w] EXCEPT !.success = <<success>>],
                       Call("ffmpeg", run.outcome, 0))
       IN  /\ files' = FilesAfterEncode(files, wav_path, ogg_path, run)
           /\ req' = [req EXCEPT ![w] =
                 IF ~success
                   THEN Fail(l, HTTPException(500, "Error during audio conversion"))
                   ELSE [l EXCEPT !.pc = "done",
                                  !.response = FileResponse(req[w].request_id)]]
    /\ UNCHANGED <<pipelines, started, uuids, constructed, stores>>

\* The steps after Begin, with the collaborators' behaviour drawn from the
\* given phonemizer runs.
Proceed(w, phonemizerRuns) ==
    \/ CacheLookup(w)
    \/ \E ok \in BOOLEAN : Construct(w, ok)
    \/ Store(w)
    \/ ReturnPipeline(w)
    \/ \E run \in phonemizerRuns : Phonemize(w, run)
    \/ \E run \in SynthesizerRuns, wr \in WriteRuns : Synthesize(w, run, wr)
    \/ \E run \in EncoderRuns : Convert(w, run)

\* No request is inside the handler.
AllQuiet == \A w \in Workers : req[w].pc \in {"idle", "done"}

\* Requests served concurrently by the thread pool.
Next ==
    \E w \in Workers :
        \/ \E tag \in SomeTags : Begin(w, tag)
        \/ Proceed(w, SomePhonemizerRuns)

Spec == Init /\ [][Next]_vars

\* Non-overlapping requests: a request enters only when none is in flight.
NextSeq ==
    \E w \in Workers :
        \/ \E tag \in SomeTags : AllQuiet /\ Begin(w, tag)
        \/ Proceed(w, SomePhonemizerRuns)

SpecSeq == Init /\ [][NextSeq]_vars

\* One worker, every phonemizer run.
NextOne ==
    \/ \E tag \in SomeTags : Begin(1, tag)
    \/ Proceed(1, PhonemizerRuns)

SpecOne == Init /\ [][NextOne]_vars

\* Resolution alone, over every tag.
NextResolve == \E tag \in AllTags : Begin(1, tag)

SpecResolve == Init /\ [][NextResolve]_vars

----------------------------------------------------------------------------
\* Vocabulary of the properties.

\* The collaborators a request has called so far.
Steps(r) == {r.log[i].step : i \in DOMAIN r.log}

Calls(r, step) == {i \in DOMAIN r.log : r.log[i].step = step}

\* A string part of a detail.
Carries(detail, text) == \E i \in DOMAIN detail : detail[i] = text

\* A letter and its capital.
CasePairs ==
    { <<"a", "A">>, <<"b", "B">>, <<"e", "E">>, <<"g", "G">>, <<"h", "H">>,
      <<"j", "J">>, <<"n", "N">>, <<"s", "S">>, <<"z", "Z">> }

\* tag is word in some letter case (word is in lower case).
IsTag(tag, word) ==
    /\ Len(tag) = Len(word)
    /\ \A i \in 1..Len(word) :
          tag[i] = word[i] \/ <<word[i], tag[i]>> \in CasePairs

\* The table of the specification.
ExpectedPair(tag) ==
    CASE IsTag(tag, <<"e", "n">>) -> [lang_code |-> "a", voice |-> "af_heart"]
      [] IsTag(tag, <<"g", "b">>) -> [lang_code |-> "b", voice |-> "bf_sunny"]
      [] IsTag(tag, <<"e", "s">>) -> [lang_code |-> "e", voice |-> "em_alex"]
      [] IsTag(tag, <<"j", "a">>) -> [lang_code |-> "j", voice |-> "jf_yama"]
      [] IsTag(tag, <<"z", "h">>) -> [lang_code |-> "z", voice |-> "zf_xiaobei"]
      [] OTHER -> [lang_code |-> "a", voice |-> "af_heart"]

\* The phoneme string a generator item carries, as an option: none for an
\* empty tuple.
BatchString(b) == IF b.is_tuple THEN b.items ELSE <<b.str>>

\* The phonemizer ran to its first item, or to its end, and gave no phonemes.
PhonemizerGaveNothing(r) ==
    /\ \E i \in DOMAIN r.log : r.log[i].step = "pipeline" /\ r.log[i].result = "ok"
    /\ \/ r.batches = <<>>
       \/ BatchString(r.batches[1]) = << <<>> >>

\* generate_from_tokens ran and yielded nothing.
SynthesizerGaveNothing(r) ==
    \E i \in DOMAIN r.log :
        r.log[i] = Call("generate_from_tokens", "ok", 0)

\* ffmpeg exited non-zero, or running it raised.
EncoderFailed(r) ==
    \E i \in DOMAIN r.log :
        r.log[i].step = "ffmpeg" /\ r.log[i].result \in {"nonzero", "raise"}

Finished(r) == r.pc = "done"

FailedWith(r, text) ==
    /\ Finished(r)
    /\ r.response.kind = "error"
    /\ r.response.status_code = 500
    /\ Carries(r.response.detail, text)

----------------------------------------------------------------------------
\* C1: every tag that is en, gb, es, ja or zh in some letter case resolves to
\* the pair the table gives for it, every other tag resolves to (a, af_heart),
\* and resolving never ends the request with an error.
C1_Resolution ==
    \A w \in Workers :
        req[w].pc # "idle" =>
            /\ [lang_code |-> req[w].lang_code, voice |-> req[w].voice]
                  = ExpectedPair(req[w].request_lang)
            /\ req[w].pc = "get_pipeline"
            /\ req[w].response = NoResponse

C1_Witness ==
    \E w \in Workers :
        /\ req[w].request_lang = <<"Z", "h">>
        /\ req[w].lang_code = "z"
        /\ req[w].voice = "zf_xiaobei"

\* C2: when the phonemizer yields nothing, or an empty phoneme string, the
\* request fails and generate_from_tokens, the WAV write and ffmpeg are never
\* called for it.
C2_NoPhonemesStops ==
    \A w \in Workers :
        PhonemizerGaveNothing(req[w]) =>
            /\ FailedWith(req[w], "No phonemes generated from text")
            /\ Steps(req[w]) \cap {"generate_from_tokens", "sf.write", "ffmpeg"} = {}
            /\ WavPath(req[w].request_id) \notin files
            /\ OggPath(req[w].request_id) \notin files

C2_Witness ==
    \E w \in Workers :
        /\ PhonemizerGaveNothing(req[w])
        /\ req[w].batches # <<>>
        /\ Finished(req[w])

\* C3: when generate_from_tokens yields no audio, the request fails, no WAV
\* is written and ffmpeg is never called for it.
C3_NoAudioStops ==
    \A w \in Workers :
        SynthesizerGaveNothing(req[w]) =>
            /\ FailedWith(req[w], "No audio segments generated from phonemes")
            /\ Steps(req[w]) \cap {"sf.write", "ffmpeg"} = {}
            /\ WavPath(req[w].request_id) \notin files
            /\ OggPath(req[w].request_id) \notin files

C3_Witness ==
    \E w \in Workers : SynthesizerGaveNothing(req[w]) /\ Finished(req[w])

\* C4: when ffmpeg exits non-zero or running it raises, convert_to_ogg
\* returns False, the request fails with an error and no file is returned.
C4_EncoderFailureFails ==
    \A w \in Workers :
        EncoderFailed(req[w]) =>
            /\ req[w].success = <<FALSE>>
            /\ FailedWith(req[w], "Error during audio conversion")
            /\ req[w].response.path = <<>>

C4_Witness ==
    \E w, v \in Workers :
        /\ Call("ffmpeg", "nonzero", 0) \in {req[w].log[i] : i \in DOMAIN req[w].log}
        /\ Call("ffmpeg", "raise", 0) \in {req[v].log[i] : i \in DOMAIN req[v].log}
        /\ Finished(req[w])
        /\ Finished(req[v])

\* The request ended without a file: one of its steps failed.
Failed(r) == Finished(r) /\ r.response.kind # "file"

\* The message of the failure that ended a failed request, read off its call
\* log: the call that raised, or the check that found nothing.
UnderlyingMessage(r) ==
    LET last == r.log[Len(r.log)]
    IN  CASE last.step = "KPipeline" -> "KPipeline error"
          [] last.step = "pipeline" /\ last.result = "raise" -> "pipeline error"
          [] last.step = "pipeline" /\ last.result = "ok" ->
                IF r.batches # <<>> /\ BatchString(r.batches[1]) = <<>>
                  THEN "tuple index out of range"
                  ELSE "No phonemes generated from text"
          [] last.step = "generate_from_tokens" /\ last.result = "raise" ->
                "generate_from_tokens error"
          [] last.step = "generate_from_tokens" /\ last.result = "ok" ->
                "No audio segments generated from phonemes"
          [] last.step = "sf.write" -> "sf.write error"
          [] OTHER -> "Error during audio conversion"

\* C5: every failed request, whatever failed in it, is answered with status
\* 500 and the detail "Internal server error: " followed by the underlying
\* message; and no collaborator is called twice within one request.
C5_OneErrorOutcome ==
    \A w \in Workers :
        /\ Failed(req[w]) =>
              /\ req[w].response.kind = "error"
              /\ req[w].response.status_code = 500
              /\ req[w].response.detail[1] = "Internal server error: "
              /\ Carries(req[w].response.detail, UnderlyingMessage(req[w]))
        /\ \A step \in Steps(req[w]) : Cardinality(Calls(req[w], step)) = 1

\* Both workers have failed, one on a check of the handler and one on an
\* exception of a collaborator.
C5_Witness ==
    \E w, v \in Workers :
        /\ Failed(req[w])
        /\ Failed(req[v])
        /\ UnderlyingMessage(req[w]) = "No audio segments generated from phonemes"
        /\ UnderlyingMessage(req[v]) = "KPipeline error"

\* The calls of a request after get_pipeline, in order.
SynthesisCalls(r) == SelectSeq(r.log, LAMBDA c : c.step # "KPipeline")

\* C6: a file response is returned only after the phonemizer gave a non-empty
\* phoneme string, generate_from_tokens gave at least one audio item, the WAV
\* was written and ffmpeg succeeded, in this order; the file is the OGG named
\* by the request's own identifier, the one its WAV is named by, served as
\* audio/ogg under the name speech_<identifier>.ogg.
C6_FileOnlyAfterSuccess ==
    \A w \in Workers :
        req[w].response.kind = "file" =>
            LET r == req[w]
                calls == SynthesisCalls(r)
            IN  /\ Len(calls) = 4
                /\ calls[1] = Call("pipeline", "ok", 1)
                /\ calls[2].step = "generate_from_tokens"
                /\ calls[2].result = "ok"
                /\ calls[2].n >= 1
                /\ calls[3] = Call("sf.write", "ok", 0)
                /\ calls[4] = Call("ffmpeg", "ok", 0)
                /\ r.phonemes # <<>> /\ r.phonemes[1] # <<>>
                /\ r.tokens = r.phonemes
                /\ Len(r.audio_segments) >= 1
                /\ r.success = <<TRUE>>
                /\ r.request_id >= 1
                /\ WavPath(r.request_id) \in files
                /\ r.response.path = <<TEMP_DIR, ToString(r.request_id), ".ogg">>
                /\ r.response.path \in files
                /\ r.response.media_type = "audio/ogg"
                /\ r.response.filename = <<"speech_", ToString(r.request_id), ".ogg">>
                /\ \A v \in Workers \ {w} : req[v].request_id # r.request_id

C6_Witness ==
    \E w, v \in Workers :
        /\ w # v
        /\ req[w].response.kind = "file"
        /\ req[v].response.kind = "file"

\* The instances built for a model code.
Built(c) == {i \in DOMAIN constructed : constructed[i].lang_code = c}

Written(c) == {i \in DOMAIN stores : stores[i].lang_code = c}

\* C7: with non-overlapping requests, get_pipeline builds a pipeline exactly
\* when the cache has no entry for the code; an entry is never removed or
\* replaced; each code is built at most once; every request uses the cached
\* instance of its code; the keys are among a, b, e, j, z.
C7_CacheState ==
    /\ DOMAIN pipelines \subseteq {"a", "b", "e", "j", "z"}
    /\ \A c \in ModelCodes : Cardinality(Built(c)) <= 1
    /\ \A w \in Workers :
          req[w].pipeline # NoPipeline =>
              /\ req[w].lang_code \in DOMAIN pipelines
              /\ req[w].pipeline = pipelines[req[w].lang_code]
              /\ req[w].pipeline = constructed[CHOOSE i \in Built(req[w].lang_code) : TRUE]

C7_CacheStep ==
    /\ \A c \in DOMAIN pipelines :
          c \in DOMAIN pipelines' /\ pipelines'[c] = pipelines[c]
    /\ \A w \in Workers :
          /\ req[w].pc = "get_pipeline" /\ req'[w].pc # "get_pipeline"
                => (req'[w].pc = "construct" <=> req[w].lang_code \notin DOMAIN pipelines)
          /\ req[w].pc # "construct" /\ req'[w].pc = "construct"
                => req[w].pc = "get_pipeline"
    /\ constructed' # constructed =>
          \E w \in Workers :
              /\ req[w].pc = "construct"
              /\ req[w].lang_code \notin DOMAIN pipelines
              /\ constructed' = Append(constructed, req'[w].built)

C7_SequentialCache == [](C7_CacheState) /\ [][C7_CacheStep]_vars

\* A second request for a cached code got the instance built for the first.
C7_Witness ==
    \E w \in Workers :
        /\ started = 2
        /\ req[w].pipeline # NoPipeline
        /\ "KPipeline" \notin Steps(req[w])
        /\ Len(constructed) = 1
        /\ req[w].pipeline = constructed[1]

\* C8: with overlapping requests two pipelines may be built and stored for
\* one code; the cache then holds, for each code, the instance stored last,
\* and every request goes on with a pipeline built for its own code.
C8_LastWriteWins ==
    /\ DOMAIN pipelines = {stores[i].lang_code : i \in DOMAIN stores}
    /\ \A c \in DOMAIN pipelines :
          pipelines[c] = stores[CHOOSE i \in Written(c) : \A j \in Written(c) : j <= i]
    /\ \A w \in Workers :
          req[w].pipeline # NoPipeline =>
              /\ req[w].pipeline.lang_code = req[w].lang_code
              /\ \E i \in DOMAIN constructed : constructed[i] = req[w].pipeline

\* Both requests missed the cache for the same code, both built and stored a
\* pipeline, and both go on.
C8_Witness ==
    \E w, v \in Workers :
        /\ w # v
        /\ req[w].lang_code = req[v].lang_code
        /\ Len(stores) = 2
        /\ stores[1] = req[w].built
        /\ stores[2] = req[v].built
        /\ stores[1] # stores[2]
        /\ req[w].pipeline # NoPipeline
        /\ req[v].pipeline # NoPipeline
        /\ pipelines[req[w].lang_code] = stores[2]

\* C9: a file written to the temporary directory is present in every later
\* state: the set of files never shrinks.
C9_FilesNeverDeleted == [][files \subseteq files']_vars

\* The WAV of a request whose encoding failed is still there after a later
\* request has finished.
C9_Witness ==
    \E w, v \in Workers :
        /\ EncoderFailed(req[w])
        /\ Finished(req[w])
        /\ WavPath(req[w].request_id) \in files
        /\ Finished(req[v])
        /\ req[v].request_id > req[w].request_id

\* C10: the phoneme string passed to generate_from_tokens is that of the
\* first item the phonemizer yields, whatever follows it; a request whose
\* first item has an empty phoneme string fails with the no-phonemes error
\* whatever the later items carry.
C10_FirstBatchOnly ==
    \A w \in Workers :
        LET r == req[w]
        IN  /\ "generate_from_tokens" \in Steps(r) =>
                  /\ r.batches # <<>>
                  /\ r.tokens = BatchString(r.batches[1])
            /\ (/\ \E i \in DOMAIN r.log : r.log[i] = Call("pipeline", "ok", 1)
                /\ BatchString(r.batches[1]) = << <<>> >>)
                  => /\ FailedWith(r, "No phonemes generated from text")
                     /\ "generate_from_tokens" \notin Steps(r)

\* The first item was empty, a later one carried phonemes, the request failed.
C10_Witness ==
    \E w \in Workers :
        /\ Len(req[w].batches) = 2
        /\ BatchString(req[w].batches[1]) = << <<>> >>
        /\ BatchString(req[w].batches[2]) = << <<"q">> >>
        /\ Finished(req[w])

====
